---- MODULE Spec2Model ----
(***************************************************************************)
(* A model of src/mcp_git_ingest/main.py: the workspace resolver           *)
(* (clone_repo), the tree renderer (get_directory_tree), the file reader   *)
(* (git_read_important_files) and the file writers (modify_file_content,   *)
(* git_write_file).                                                        *)
(*                                                                         *)
(* Text is a sequence of characters; "CR" and "LF" stand for '\r' and      *)
(* '\n', every other string for one ordinary character (or an opaque run   *)
(* of ordinary characters).  The filesystem is POSIX: os.linesep = '\n'.   *)
(* shutil.rmtree(..., ignore_errors=True) is taken to remove the tree.     *)
(***************************************************************************)
EXTENDS Integers, Sequences, FiniteSets, TLC

VARIABLES
    fs,        \* the directories the program works on: path -> directory
    call,      \* per caller: the position of its clone_repo call (SpecConc)
    last,      \* the last completed operation and what it returned
    prev,      \* the clone_repo call completed just before `last`, if undisturbed
    edit,      \* modify_file_content applied to one file (SpecEdit)
    tree,      \* get_directory_tree applied to one directory (SpecTree)
    rd         \* the reading loop of git_read_important_files (SpecRead)

vars == <<fs, call, last, prev, edit, tree, rd>>

-----------------------------------------------------------------------------
(* Text and text-mode I/O.                                                 *)

CR == "CR"
LF == "LF"

\* open(path, 'w', encoding='utf-8').write(s): with newline=None every '\n'
\* is written as os.linesep, which is '\n'; '\r' is written as it is.
WriteText(s) == s

\* open(path, 'r', encoding='utf-8').read(): with newline=None (universal
\* newlines) '\r\n' and a lone '\r' are both returned as '\n'.
RECURSIVE ReadText(_)
ReadText(bytes) ==
    IF bytes = <<>> THEN <<>>
    ELSE IF Head(bytes) = CR
         THEN IF Len(bytes) >= 2 /\ bytes[2] = LF
              THEN <<LF>> \o ReadText(SubSeq(bytes, 3, Len(bytes)))
              ELSE <<LF>> \o ReadText(Tail(bytes))
         ELSE <<Head(bytes)>> \o ReadText(Tail(bytes))

-----------------------------------------------------------------------------
(* Files and directories.                                                  *)

NoFile      == [kind |-> "none", data |-> <<>>]
File(bytes) == [kind |-> "file", data |-> bytes]
\* a regular file whose open() or decoding raises
Unreadable  == [kind |-> "unreadable", data |-> <<>>]
SubDir      == [kind |-> "dir", data |-> <<>>]

GitConfigPath == ".git/config"
ReadmePath    == "README"
NestedPath    == "d/g.txt"
Paths         == {GitConfigPath, ReadmePath, NestedPath}

Absent   == [exists |-> FALSE, files |-> [p \in Paths |-> NoFile]]
EmptyDir == [exists |-> TRUE,  files |-> [p \in Paths |-> NoFile]]

IsEmptyDir(d) == d.exists /\ \A p \in Paths : d.files[p].kind = "none"

\* Repository locators: two remote addresses and one local path.
R1 == "https://github.com/example/repo"
R2 == "https://github.com/example/other"
LP == "/srv/checkout"
Locators == {R1, R2, LP}

\* .git/config of a working copy whose remote "origin" has the given url
GitConfig(url)  == <<"[remote origin] url = ", url>>
\* the same with core.bare = true
BareConfig(url) == <<"[core] bare = true", "[remote origin] url = ", url>>
\* .git/config while `git clone` is still fetching
FetchingConfig(url) == <<"[remote origin] url = ", url, "(fetching)">>

ReadmeText == <<"r", LF>>

\* the working copy a completed `git clone url` leaves
Cloned(url) ==
    [exists |-> TRUE,
     files  |-> [p \in Paths |->
                   CASE p = GitConfigPath -> File(GitConfig(url))
                     [] p = ReadmePath    -> File(ReadmeText)
                     [] OTHER             -> NoFile]]
BareRepo(url) ==
    [exists |-> TRUE,
     files  |-> [p \in Paths |->
                   IF p = GitConfigPath THEN File(BareConfig(url)) ELSE NoFile]]
InProgress(url) ==
    [exists |-> TRUE,
     files  |-> [p \in Paths |->
                   IF p = GitConfigPath THEN File(FetchingConfig(url)) ELSE NoFile]]
\* a non-empty directory that is no working copy
Junk ==
    [exists |-> TRUE,
     files  |-> [p \in Paths |->
                   IF p = ReadmePath THEN File(ReadmeText) ELSE NoFile]]

-----------------------------------------------------------------------------
(* clone_repo, lines 20-48.                                                *)

\* line 23: repo_url.startswith("https://github.com/")
StartsWithGithub(repo_url) == repo_url \in {R1, R2}

\* line 27: hashlib.sha256(repo_url.encode()).hexdigest()[:12]
repo_hash(repo_url) ==
    CASE repo_url = R1 -> "ffc8e3beb425"
      [] repo_url = R2 -> "79d6b72c583a"
      [] repo_url = LP -> "dd7318cb8be3"

\* a directory of the scratch space, by its key
CacheDir(key) == "/tmp/github_tools_" \o key

temp_dir_shared(repo_url) == CacheDir(repo_hash(R1))
\* line 28: os.path.join(tempfile.gettempdir(), f"github_tools_{repo_hash}")
temp_dir(repo_url) == CacheDir(repo_hash(repo_url))

TempDirs == {CacheDir(repo_hash(L)) : L \in Locators}
DirPaths == TempDirs \cup {LP}

\* os.path.exists(path)
PathExists(f, path) == path \in DOMAIN f /\ f[path].exists

\* lines 33-34: git.Repo(temp_dir), repo.bare, repo.remote().url.
\*   "valid"   the condition of line 34 holds
\*   "invalid" it is false and nothing was raised
\*   "error"   one of the three raised
\* A clone that is still fetching either opens (its origin is set first) or
\* does not, as `opens` says.
ValidateRepo(d, repo_url, opens) ==
    LET cfg == d.files[GitConfigPath] IN
    IF ~d.exists \/ cfg.kind # "file" THEN "error"
    ELSE IF \E u \in Locators : cfg.data = BareConfig(u) THEN "invalid"
    ELSE IF \E u \in Locators : cfg.data = GitConfig(u)
         THEN IF cfg.data = GitConfig(repo_url) THEN "valid" ELSE "invalid"
    ELSE IF \E u \in Locators : cfg.data = FetchingConfig(u)
         THEN IF ~opens THEN "error"
              ELSE IF cfg.data = FetchingConfig(repo_url) THEN "valid"
              ELSE "invalid"
    ELSE "error"

\* shutil.rmtree(path, ignore_errors=True)
rmtree(f, path) == [f EXCEPT ![path] = Absent]

\* os.makedirs(path, exist_ok=True), when it does not raise
makedirs(f, path) == IF f[path].exists THEN f ELSE [f EXCEPT ![path] = EmptyDir]

\* What the environment decides during one call:
\*   mk    os.makedirs raises          net   the transfer completes
\*   opens a half-fetched clone opens  ls    os.listdir raises
\*   wr    the write raises
Envs == [mk : BOOLEAN, net : BOOLEAN, opens : BOOLEAN, ls : BOOLEAN, wr : BOOLEAN]
\* the choices clone_repo itself meets
ResolveEnvs == {env \in Envs : ~env.ls /\ ~env.wr}

\* One clone_repo call: where it is, what it has done, what it gave back.
NoCall == [pc |-> "idle", loc |-> "", ret |-> "", err |-> "",
           cloned |-> 0, deleted |-> 0]
NewCall(repo_url) == [NoCall EXCEPT !.pc = "l23", !.loc = repo_url]

Finished(c) == c.pc \in {"returned", "raised"}

\* lines 23-24
Line23(c, f, env) ==
    IF ~StartsWithGithub(c.loc) /\ PathExists(f, c.loc)
    THEN [c |-> [c EXCEPT !.pc = "returned", !.ret = c.loc], fs |-> f]
    ELSE [c |-> [c EXCEPT !.pc = "l31"], fs |-> f]

\* line 31
Line31(c, f, env) ==
    IF PathExists(f, temp_dir(c.loc))
    THEN [c |-> [c EXCEPT !.pc = "l33"], fs |-> f]
    ELSE [c |-> [c EXCEPT !.pc = "l41"], fs |-> f]

Line33NoCheck(c, f, env) ==
    [c |-> [c EXCEPT !.pc = "l41"], fs |-> f]

\* lines 32-36: the try block; only an exception reaches line 38
Line33(c, f, env) ==
    LET v == ValidateRepo(f[temp_dir(c.loc)], c.loc, env.opens) IN
    CASE v = "valid"   -> [c |-> [c EXCEPT !.pc = "returned",
                                           !.ret = temp_dir(c.loc)], fs |-> f]
      [] v = "error"   -> [c |-> [c EXCEPT !.pc = "l38"], fs |-> f]
      [] v = "invalid" -> [c |-> [c EXCEPT !.pc = "l41"], fs |-> f]

\* line 38
Line38(c, f, env) ==
    [c  |-> [c EXCEPT !.pc = "l41", !.deleted = c.deleted + 1],
     fs |-> rmtree(f, temp_dir(c.loc))]

\* line 41: outside the try of line 42, so its exception leaves clone_repo
Line41(c, f, env) ==
    IF ~PathExists(f, temp_dir(c.loc)) /\ env.mk
    THEN [c |-> [c EXCEPT !.pc = "raised", !.err = "makedirs"], fs |-> f]
    ELSE [c |-> [c EXCEPT !.pc = "l43"], fs |-> makedirs(f, temp_dir(c.loc))]

\* git clone <repo_url>: a source that is a local path must exist
SourceExists(f, repo_url) == StartsWithGithub(repo_url) \/ PathExists(f, repo_url)

\* line 43, first half: git refuses a destination that exists and is not
\* empty; otherwise it creates the working copy and starts fetching.
Line43(c, f, env) ==
    LET t == temp_dir(c.loc) IN
    IF (f[t].exists /\ ~IsEmptyDir(f[t])) \/ ~SourceExists(f, c.loc)
    THEN [c |-> [c EXCEPT !.pc = "l47", !.cloned = c.cloned + 1], fs |-> f]
    ELSE [c  |-> [c EXCEPT !.pc = "l43f", !.cloned = c.cloned + 1],
          fs |-> [f EXCEPT ![t] = InProgress(c.loc)]]

\* line 43, second half, and line 44: the transfer completes, or it fails
\* and leaves what it had fetched.
Line43Fetch(c, f, env) ==
    LET t == temp_dir(c.loc) IN
    IF f[t] = InProgress(c.loc) /\ env.net
    THEN [c  |-> [c EXCEPT !.pc = "returned", !.ret = t],
          fs |-> [f EXCEPT ![t] = Cloned(c.loc)]]
    ELSE [c |-> [c EXCEPT !.pc = "l47"], fs |-> f]

Line47NoCleanup(c, f, env) ==
    [c  |-> [c EXCEPT !.pc = "raised", !.err = "clone"], fs |-> f]

\* lines 45-48
Line47(c, f, env) ==
    [c  |-> [c EXCEPT !.pc = "raised", !.err = "clone",
                      !.deleted = c.deleted + 1],
     fs |-> rmtree(f, temp_dir(c.loc))]

CloneRepoStep(c, f, env) ==
    CASE c.pc = "l23"  -> Line23(c, f, env)
      [] c.pc = "l31"  -> Line31(c, f, env)
      [] c.pc = "l33"  -> Line33(c, f, env)
      [] c.pc = "l38"  -> Line38(c, f, env)
      [] c.pc = "l41"  -> Line41(c, f, env)
      [] c.pc = "l43"  -> Line43(c, f, env)
      [] c.pc = "l43f" -> Line43Fetch(c, f, env)
      [] c.pc = "l47"  -> Line47(c, f, env)

RECURSIVE RunCloneRepo(_, _, _)
RunCloneRepo(c, f, env) ==
    IF Finished(c) THEN [c |-> c, fs |-> f]
    ELSE LET s == CloneRepoStep(c, f, env) IN RunCloneRepo(s.c, s.fs, env)

\* clone_repo(repo_url) run from start to end with nothing else running
clone_repo(f, repo_url, env) == RunCloneRepo(NewCall(repo_url), f, env)

-----------------------------------------------------------------------------
(* History: the last completed operation, and the one before it.           *)

LastNone == [op |-> "none", loc |-> "", c |-> NoCall, pre |-> "",
             arg |-> <<>>, res |-> [raised |-> FALSE, shape |-> "", value |-> <<>>]]
NoPrev   == [ok |-> FALSE, op |-> "none", loc |-> "", ret |-> "", cloned |-> 0,
             path |-> "", content |-> <<>>]

Off == [st |-> "off"]

\* What the cache directory of repo_url is to a clone_repo(repo_url) call
\* about to start.
PreClass(f, repo_url) ==
    LET d == f[temp_dir(repo_url)]
        v == ValidateRepo(d, repo_url, FALSE)
    IN  IF ~d.exists THEN "absent"
        ELSE IF v = "valid" THEN "valid"
        ELSE IF v = "error" THEN "corrupt"
        ELSE IF \E u \in Locators : d.files[GitConfigPath].data = BareConfig(u)
             THEN "bare"
        ELSE "mismatch"

\* the summary of `last` that the next operation keeps as `prev`
Summary(l) ==
    [ok      |-> l.op \in {"clone_repo", "tree", "read", "write"}
                    /\ l.c.pc = "returned",
     op      |-> l.op,
     loc     |-> l.loc,
     ret     |-> l.c.ret,
     cloned  |-> l.c.cloned,
     path    |-> IF l.op = "write" THEN l.arg[1] ELSE "",
     content |-> IF l.op = "write" THEN l.arg[2] ELSE <<>>]

\* directories an outside actor (or an earlier, killed process) can leave
\* at the cache path of a locator
TamperedDirs == {Absent, EmptyDir, Junk, BareRepo(R1)}
                    \cup {Cloned(u) : u \in {R1, R2}}

-----------------------------------------------------------------------------
(* SpecResolve: clone_repo called again and again by one caller, with an   *)
(* outside actor changing the scratch space between calls.                 *)

InitOthers ==
    /\ call = [p \in {1, 2} |-> NoCall]
    /\ edit = Off
    /\ tree = Off
    /\ rd = Off

InitResolve ==
    /\ fs \in [DirPaths -> {Absent, Junk}]
    /\ \A t \in TempDirs : fs[t] = Absent
    /\ last = LastNone
    /\ prev = NoPrev
    /\ InitOthers

CallCloneRepo(repo_url) ==
    \E env \in {e \in ResolveEnvs : ~e.opens} :
        LET r == clone_repo(fs, repo_url, env) IN
        /\ fs' = r.fs
        /\ last' = [LastNone EXCEPT !.op = "clone_repo", !.loc = repo_url,
                                    !.c = r.c, !.pre = PreClass(fs, repo_url)]
        /\ prev' = Summary(last)
        /\ UNCHANGED <<call, edit, tree, rd>>

Tamper(path, d) ==
    /\ fs[path] # d
    /\ fs' = [fs EXCEPT ![path] = d]
    /\ last' = [LastNone EXCEPT !.op = "tamper"]
    /\ prev' = NoPrev
    /\ UNCHANGED <<call, edit, tree, rd>>

NextResolve ==
    \/ \E repo_url \in Locators : CallCloneRepo(repo_url)
    \/ \E path \in TempDirs, d \in TamperedDirs : Tamper(path, d)

SpecResolve == InitResolve /\ [][NextResolve]_vars

-----------------------------------------------------------------------------
(* SpecConc: two callers inside clone_repo at once, one line at a time.    *)

Procs == {1, 2}

InitConc ==
    /\ fs \in [DirPaths -> {Absent, Junk, Cloned(R1), Cloned(R2)}]
    /\ fs[LP] \in {Absent, Junk}
    /\ fs[temp_dir(LP)] = Absent
    /\ call = [p \in Procs |-> NoCall]
    /\ last = LastNone
    /\ prev = NoPrev
    /\ edit = Off
    /\ tree = Off
    /\ rd = Off

Enter(p) ==
    /\ call[p].pc = "idle"
    /\ \E repo_url \in Locators : call' = [call EXCEPT ![p] = NewCall(repo_url)]
    /\ UNCHANGED <<fs, last, prev, edit, tree, rd>>

\* caller p runs the line it is at
RunLine(p) ==
    /\ \E env \in ResolveEnvs :
         LET s == CloneRepoStep(call[p], fs, env) IN
         /\ call' = [call EXCEPT ![p] = s.c]
         /\ fs' = s.fs
    /\ UNCHANGED <<last, prev, edit, tree, rd>>

At23(p)  == call[p].pc = "l23"  /\ RunLine(p)
At31(p)  == call[p].pc = "l31"  /\ RunLine(p)
At33(p)  == call[p].pc = "l33"  /\ RunLine(p)
At38(p)  == call[p].pc = "l38"  /\ RunLine(p)
At41(p)  == call[p].pc = "l41"  /\ RunLine(p)
At43(p)  == call[p].pc = "l43"  /\ RunLine(p)
At43f(p) == call[p].pc = "l43f" /\ RunLine(p)
At47(p)  == call[p].pc = "l47"  /\ RunLine(p)

\* the caller takes the result and may call again
Leave(p) ==
    /\ Finished(call[p])
    /\ call' = [call EXCEPT ![p] = NoCall]
    /\ UNCHANGED <<fs, last, prev, edit, tree, rd>>

NextConc ==
    \E p \in Procs :
        \/ Enter(p)
        \/ At23(p)
        \/ At31(p)
        \/ At33(p)
        \/ At38(p)
        \/ At41(p)
        \/ At43(p)
        \/ At43f(p)
        \/ At47(p)
        \/ Leave(p)

SpecConc == InitConc /\ [][NextConc]_vars


-----------------------------------------------------------------------------
(* get_directory_tree, lines 50-70.                                        *)

\* A directory listing is a set of entries [name, isdir, sub], sub being the
\* listing of the entry when it is a directory.
Entry(name, isdir, sub) == [name |-> name, isdir |-> isdir, sub |-> sub]

\* the names that occur, in the order list.sort() gives them (code points)
NameOrder == <<".circleci", ".git", ".gitignore", "README",
               "config", "d", "g.txt", "src">>
Rank(name) == CHOOSE i \in 1..Len(NameOrder) : NameOrder[i] = name

\* line 57: entry.startswith('.git')
StartsWithDotGit(name) == name \in {".git", ".gitignore"}

\* lines 53-54: os.listdir(path) and entries.sort()
RECURSIVE SortedEntries(_)
SortedEntries(listing) ==
    IF listing = {} THEN <<>>
    ELSE LET first == CHOOSE e \in listing :
                          \A x \in listing : Rank(e.name) <= Rank(x.name)
         IN  <<first>> \o SortedEntries(listing \ {first})

\* the glyphs of lines 61-62
LastBranch == "+-- "      \* the terminal-branch glyph
MidBranch  == "|-- "      \* the mid-branch glyph
BlankIndent == "    "
BarIndent   == "|   "

\* The output is the sequence of its lines, a line being the sequence of
\* the strings concatenated into it at line 65 (without the final "\n").
RECURSIVE get_directory_tree(_, _)
RECURSIVE TreeLoop(_, _, _)
\* lines 56-68, from the entry at position i (i - 1 in the code) on
TreeLoop(entries, prefix, i) ==
    IF i > Len(entries) THEN <<>>
    ELSE LET entry          == entries[i]
             is_last        == (i = Len(entries))
             current_prefix == IF is_last THEN LastBranch ELSE MidBranch
             next_prefix    == IF is_last THEN BlankIndent ELSE BarIndent
         IN  IF StartsWithDotGit(entry.name)
             THEN TreeLoop(entries, prefix, i + 1)
             ELSE <<prefix \o <<current_prefix, entry.name>>>>
                  \o (IF entry.isdir
                      THEN get_directory_tree(entry.sub, prefix \o <<next_prefix>>)
                      ELSE <<>>)
                  \o TreeLoop(entries, prefix, i + 1)

get_directory_tree(listing, prefix) ==
    TreeLoop(SortedEntries(listing), prefix, 1)

\* what os.listdir and os.path.isdir find under a directory of the model
ListingOf(d) ==
    (IF d.files[GitConfigPath].kind # "none"
     THEN {Entry(".git", TRUE, {Entry("config", FALSE, {})})} ELSE {})
    \cup (IF d.files[ReadmePath].kind # "none"
          THEN {Entry("README", FALSE, {})} ELSE {})
    \cup (IF d.files[NestedPath].kind # "none"
          THEN {Entry("d", TRUE, {Entry("g.txt", FALSE, {})})} ELSE {})

-----------------------------------------------------------------------------
(* The three tools.  A result is what the caller gets: a value of some     *)
(* shape, or an exception (raised).                                        *)

Returned(shape, value) == [raised |-> FALSE, shape |-> shape, value |-> value]
Raised(cause)          == [raised |-> TRUE, shape |-> "exception", value |-> cause]

\* lines 83-89: the body of the try
DirectoryStructureBody(f, repo_url, env) ==
    LET r == clone_repo(f, repo_url, env) IN
    IF r.c.pc = "raised"
    THEN [fs |-> r.fs, c |-> r.c, res |-> Raised(r.c.err)]
    ELSE IF env.ls
    THEN [fs |-> r.fs, c |-> r.c, res |-> Raised("listdir")]
    ELSE [fs |-> r.fs, c |-> r.c,
          res |-> Returned("tree", get_directory_tree(ListingOf(r.fs[r.c.ret]), <<>>))]

git_directory_structure_no_except(f, repo_url, env) ==
    DirectoryStructureBody(f, repo_url, env)

\* lines 83-92
git_directory_structure(f, repo_url, env) ==
    LET b == DirectoryStructureBody(f, repo_url, env) IN
    IF b.res.raised
    THEN [b EXCEPT !.res = Returned("error_string", <<"Error: ", b.res.value>>)]
    ELSE b

\* the file a relative path names in a workspace
FileAt(files, file_path) ==
    IF file_path \in DOMAIN files THEN files[file_path] ELSE NoFile

FileNotFound      == <<"Error: File not found">>
ReadError(cause)  == <<"Error reading file: ", cause>>

\* results[file_path] = value
SetItem(results, file_path, value) ==
    [q \in DOMAIN results \cup {file_path} |->
        IF q = file_path THEN value ELSE results[q]]

EmptyDict == [q \in {} |-> <<>>]

\* What the loop does once it has met a path: go on with the next path, or
\* leave the loop.
ReadOneStopAtMissing(files, file_path, results) ==
    LET file == FileAt(files, file_path) IN
    IF file.kind \notin {"file", "unreadable"}
    THEN [results |-> SetItem(results, file_path, FileNotFound), go |-> FALSE]
    ELSE IF file.kind = "unreadable"
    THEN [results |-> SetItem(results, file_path, ReadError("cannot read")),
          go |-> TRUE]
    ELSE [results |-> SetItem(results, file_path, ReadText(file.data)),
          go |-> TRUE]

\* lines 112-123: one iteration of the loop
ReadOne(files, file_path, results) ==
    LET file == FileAt(files, file_path) IN
    \* lines 115-117: os.path.isfile
    IF file.kind \notin {"file", "unreadable"}
    THEN [results |-> SetItem(results, file_path, FileNotFound), go |-> TRUE]
    \* lines 122-123
    ELSE IF file.kind = "unreadable"
    THEN [results |-> SetItem(results, file_path, ReadError("cannot read")),
          go |-> TRUE]
    \* lines 120-121
    ELSE [results |-> SetItem(results, file_path, ReadText(file.data)),
          go |-> TRUE]

\* lines 109-125: the loop over file_paths, from position i on
RECURSIVE ReadLoop(_, _, _, _)
ReadLoop(files, file_paths, i, results) ==
    IF i > Len(file_paths) THEN results
    ELSE LET s == ReadOne(files, file_paths[i], results) IN
         IF s.go THEN ReadLoop(files, file_paths, i + 1, s.results)
         ELSE s.results

\* lines 107-125: the body of the try
ReadImportantFilesBody(f, repo_url, file_paths, env) ==
    LET r == clone_repo(f, repo_url, env) IN
    IF r.c.pc = "raised"
    THEN [fs |-> r.fs, c |-> r.c, res |-> Raised(r.c.err)]
    ELSE [fs |-> r.fs, c |-> r.c,
          res |-> Returned("mapping",
                           ReadLoop(r.fs[r.c.ret].files, file_paths, 1, EmptyDict))]

\* lines 106-128
git_read_important_files(f, repo_url, file_paths, env) ==
    LET b == ReadImportantFilesBody(f, repo_url, file_paths, env) IN
    IF b.res.raised
    THEN [b EXCEPT !.res =
              Returned("error_mapping",
                       [q \in {"error"} |->
                           <<"Failed to process repository: ", b.res.value>>])]
    ELSE b

Status(status, message, file_path) ==
    [status |-> status, message |-> message, file_path |-> file_path]

\* lines 177-192: the body of the try.  os.makedirs (line 182) or open and
\* write (lines 185-186) may raise; then nothing is written.
WriteFileBody(f, repo_url, file_path, content, env) ==
    LET r == clone_repo(f, repo_url, env) IN
    IF r.c.pc = "raised"
    THEN [fs |-> r.fs, c |-> r.c, res |-> Raised(r.c.err)]
    ELSE IF env.wr
    THEN [fs |-> r.fs, c |-> r.c, res |-> Raised("write")]
    ELSE [fs |-> [r.fs EXCEPT ![r.c.ret].files[file_path] =
                                  File(WriteText(content))],
          c  |-> r.c,
          res |-> Returned("status",
                           Status("success",
                                  <<"Successfully wrote content to ", file_path>>,
                                  file_path))]

\* lines 176-199
git_write_file(f, repo_url, file_path, content, env) ==
    LET b == WriteFileBody(f, repo_url, file_path, content, env) IN
    IF b.res.raised
    THEN [b EXCEPT !.res =
              Returned("status",
                       Status("error", <<"Failed to write file: ", b.res.value>>,
                              file_path))]
    ELSE b

-----------------------------------------------------------------------------
(* modify_file_content, lines 130-160.                                     *)

\* an optional integer: <<>> is None, <<n>> is n
None == <<>>
Some(n) == <<n>>

Max(a, b) == IF a >= b THEN a ELSE b
Min(a, b) == IF a <= b THEN a ELSE b

\* f.readlines() on text already read: the text cut after every '\n'
RECURSIVE CutLines(_, _)
CutLines(text, line) ==
    IF text = <<>> THEN (IF line = <<>> THEN <<>> ELSE <<line>>)
    ELSE IF Head(text) = LF
         THEN <<line \o <<LF>>>> \o CutLines(Tail(text), <<>>)
         ELSE CutLines(Tail(text), line \o <<Head(text)>>)

\* lines 147-148
readlines(bytes) == CutLines(ReadText(bytes), <<>>)

\* line 155: str.splitlines(): '\n', '\r' and '\r\n' all end a line, the
\* line ends are dropped, and a final line end opens no empty line
RECURSIVE SplitLoop(_, _)
SplitLoop(text, line) ==
    IF text = <<>> THEN (IF line = <<>> THEN <<>> ELSE <<line>>)
    ELSE IF Head(text) = LF
         THEN <<line>> \o SplitLoop(Tail(text), <<>>)
    ELSE IF Head(text) = CR
         THEN IF Len(text) >= 2 /\ text[2] = LF
              THEN <<line>> \o SplitLoop(SubSeq(text, 3, Len(text)), <<>>)
              ELSE <<line>> \o SplitLoop(Tail(text), <<>>)
    ELSE SplitLoop(Tail(text), line \o <<Head(text)>>)
splitlines(text) == SplitLoop(text, <<>>)

\* lines[start:stop] = new, as Python's list does it: a negative index
\* counts from the end, both are cut to 0..len, and an empty slice
\* (stop < start) is at start
SliceIndex(i, len) == IF i < 0 THEN Max(i + len, 0) ELSE Min(i, len)
SliceAssign(lines, start, stop, new) ==
    LET lo == SliceIndex(start, Len(lines))
        hi == Max(SliceIndex(stop, Len(lines)), lo)
    IN  SubSeq(lines, 1, lo) \o new \o SubSeq(lines, hi + 1, Len(lines))

\* f.writelines(lines)
RECURSIVE Concat(_)
Concat(lines) == IF lines = <<>> THEN <<>> ELSE Head(lines) \o Concat(Tail(lines))

\* the new content of the file that held `bytes`
modify_file_content(bytes, content, start_line, end_line) ==
    \* lines 140-144
    IF start_line = None \/ end_line = None THEN WriteText(content)
    ELSE LET lines     == readlines(bytes)
             \* lines 151-152
             start_idx == Max(0, start_line[1] - 1)
             end_idx   == Min(Len(lines), end_line[1])
             \* line 155
             new_lines == splitlines(content)
             \* line 156
             spliced   == SliceAssign(lines, start_idx, end_idx,
                                      [i \in 1..Len(new_lines) |->
                                           new_lines[i] \o <<LF>>])
         \* lines 159-160
         IN  WriteText(Concat(spliced))

-----------------------------------------------------------------------------
(* Spec: one caller using the three tools one after another, and an        *)
(* outside actor changing the scratch space between calls.                 *)

\* the contents written
Contents == {<<"a">>, <<"a", CR, LF, "b">>}
\* the paths written
WritePaths == {NestedPath, GitConfigPath}
\* the path lists read
ReadLists == {<<NestedPath>>, <<GitConfigPath>>, <<ReadmePath, "missing.txt">>}
\* the locators the tools are called with
ToolLocators == {R1, LP}

\* the choices one tool call meets
\* (with one caller no clone is ever met half-fetched)
TreeEnvs  == {env \in Envs : ~env.wr /\ ~env.opens}
ReadEnvs  == {env \in Envs : ~env.wr /\ ~env.ls /\ ~env.opens}
WriteEnvs == {env \in Envs : ~env.ls /\ ~env.opens}

Init ==
    /\ fs \in [DirPaths -> TamperedDirs]
    /\ fs[LP] \in {Absent, Junk}
    /\ \A t \in TempDirs : t # temp_dir(R1) => fs[t] = Absent
    /\ last = LastNone
    /\ prev = NoPrev
    /\ InitOthers

\* `last` as the next operation keeps it: only a write that succeeded
WriteSummary(l) ==
    IF l.op = "write" /\ l.res.value.status = "success"
    THEN Summary(l) ELSE NoPrev

Done(op, repo_url, arg, out) ==
    [op |-> op, loc |-> repo_url, c |-> out.c,
     pre |-> PreClass(fs, repo_url), arg |-> arg, res |-> out.res]

DirectoryStructure(repo_url) ==
    \E env \in TreeEnvs :
        LET out == git_directory_structure(fs, repo_url, env) IN
        /\ fs' = out.fs
        /\ last' = Done("tree", repo_url, <<>>, out)
        /\ prev' = WriteSummary(last)
        /\ UNCHANGED <<call, edit, tree, rd>>

ReadImportantFiles(repo_url, file_paths) ==
    \E env \in ReadEnvs :
        LET out == git_read_important_files(fs, repo_url, file_paths, env) IN
        /\ fs' = out.fs
        /\ last' = Done("read", repo_url, file_paths, out)
        /\ prev' = WriteSummary(last)
        /\ UNCHANGED <<call, edit, tree, rd>>

WriteFile(repo_url, file_path, content) ==
    \E env \in WriteEnvs :
        LET out == git_write_file(fs, repo_url, file_path, content, env) IN
        /\ fs' = out.fs
        /\ last' = Done("write", repo_url, <<file_path, content>>, out)
        /\ prev' = WriteSummary(last)
        /\ UNCHANGED <<call, edit, tree, rd>>

Next ==
    \/ \E repo_url \in ToolLocators : DirectoryStructure(repo_url)
    \/ \E repo_url \in ToolLocators, file_paths \in ReadLists :
           ReadImportantFiles(repo_url, file_paths)
    \/ \E repo_url \in ToolLocators, file_path \in WritePaths, content \in Contents :
           WriteFile(repo_url, file_path, content)

Spec == Init /\ [][Next]_vars

-----------------------------------------------------------------------------
(* Claims about clone_repo.                                                *)

\* the cache directory of repo_url holds a working copy whose origin is repo_url
OriginMatches(f, repo_url) ==
    /\ PathExists(f, temp_dir(repo_url))
    /\ f[temp_dir(repo_url)].files[GitConfigPath] = File(GitConfig(repo_url))

\* C1: a clone_repo(L) call that finds the cache directory of L holding a
\* working copy of another origin deletes it, acquires L afresh and returns;
\* afterwards the directory's origin is L.
C1_MismatchReacquired ==
    (last.op = "clone_repo" /\ last.pre = "mismatch")
        => /\ last.c.pc = "returned"
           /\ last.c.ret = temp_dir(last.loc)
           /\ last.c.deleted >= 1
           /\ last.c.cloned = 1
           /\ OriginMatches(fs, last.loc)

\* C2: when clone_repo(L) has returned and nothing touched the scratch space
\* since, the next clone_repo(L) returns the same path without cloning and
\* without deleting, so the two calls clone at most once.
C2_SecondCallShortCircuits ==
    (last.op = "clone_repo" /\ prev.ok /\ prev.op = "clone_repo"
                            /\ prev.loc = last.loc)
        => /\ last.c.pc = "returned"
           /\ last.c.ret = prev.ret
           /\ last.c.cloned = 0
           /\ last.c.deleted = 0
           /\ prev.cloned + last.c.cloned <= 1

\* the first of the two calls cloned, the second was served from the cache
C2_Witness ==
    /\ last.op = "clone_repo" /\ prev.ok /\ prev.op = "clone_repo"
    /\ prev.loc = last.loc /\ StartsWithGithub(last.loc)
    /\ prev.cloned = 1
    /\ last.c.ret = temp_dir(last.loc)

\* C3: when clone_repo(L) fails because the acquisition failed, it raises
\* with the cause and no cache directory of L exists when it returns,
\* whatever the directory was before the call.
C3_FailureLeavesNoDirectory ==
    (last.op = "clone_repo" /\ last.c.pc = "raised" /\ last.c.cloned >= 1)
        => /\ last.c.err = "clone"
           /\ ~PathExists(fs, temp_dir(last.loc))
           /\ last.pre \in {"absent", "corrupt", "mismatch", "bare"}

\* an acquisition that failed over a directory that was corrupt before
C3_Witness ==
    /\ last.op = "clone_repo" /\ last.c.pc = "raised" /\ last.c.err = "clone"
    /\ last.pre = "corrupt" /\ last.c.deleted = 2
    /\ StartsWithGithub(last.loc)

\* C10: no step of a clone_repo(L1) call changes the cache directory of a
\* locator whose cache key differs from that of L1.
C10_OtherKeysUntouched ==
    [][\A p \in Procs :
          (call'[p] # call[p])
              => LET repo_url == IF call[p].pc = "idle" THEN call'[p].loc
                                 ELSE call[p].loc
                 IN  \A key \in {repo_hash(L) : L \in Locators} :
                        key # repo_hash(repo_url)
                            => fs'[CacheDir(key)] = fs[CacheDir(key)]]_vars

\* one caller has cloned L1 while the other is inside the acquisition of L2
C10_Witness ==
    /\ call[1].loc = R1 /\ call[1].pc = "raised" /\ call[1].deleted = 1
    /\ call[2].loc = R2 /\ call[2].pc = "l43f"
    /\ fs[temp_dir(R2)] = InProgress(R2)

-----------------------------------------------------------------------------
(* Claims about the tools.                                                 *)

\* C5: a git_write_file(L, p, c) that succeeded, followed at once by
\* git_read_important_files(L, [p]), gives a mapping whose value for p is
\* exactly c, and the read resolves to the workspace written, acquiring
\* nothing.
C5_WriteReadRoundTrip ==
    (last.op = "read" /\ prev.ok /\ prev.op = "write"
                      /\ prev.loc = last.loc /\ last.arg = <<prev.path>>)
        => /\ last.res.shape = "mapping"
           /\ last.res.value[prev.path] = prev.content
           /\ last.c.ret = prev.ret
           /\ last.c.cloned = 0
           /\ last.c.deleted = 0

\* C9: each of the three tools returns a value whatever fails inside it:
\* the failure comes back as data of the tool's error shape, never raised.
C9_FaultsReturnedAsData ==
    (last.op \in {"tree", "read", "write"})
        => /\ ~last.res.raised
           /\ last.op = "tree"  => last.res.shape \in {"tree", "error_string"}
           /\ last.op = "read"  => last.res.shape \in {"mapping", "error_mapping"}
           /\ last.op = "write" => /\ last.res.shape = "status"
                                   /\ last.res.value.status \in {"success", "error"}
                                   /\ last.res.value.file_path = last.arg[1]
           /\ last.c.pc = "raised" =>
                 \/ last.res.shape \in {"error_string", "error_mapping"}
                 \/ last.res.shape = "status" /\ last.res.value.status = "error"

\* the workspace was resolved and the listing failed: an "Error: ..." string
C9_Witness ==
    /\ last.op = "tree" /\ last.c.pc = "returned"
    /\ last.res.shape = "error_string" /\ ~last.res.raised

-----------------------------------------------------------------------------
(* SpecRead: the loop of git_read_important_files over one workspace.      *)

MaxPaths == 2

ReadPaths == {"exists.txt", "missing.txt", "locked.txt"}
ReadFiles == {NoFile, SubDir, Unreadable, File(<<"x">>), File(<<"x", CR, LF>>)}

SeqsUpTo(S, n) == UNION {[1..k -> S] : k \in 0..n}

InitRead ==
    /\ rd \in [st : {"init"}, files : [ReadPaths -> ReadFiles],
               paths : SeqsUpTo(ReadPaths \cup {"other.txt"}, MaxPaths),
               out : {EmptyDict}]
    /\ fs = [path \in DirPaths |-> Absent]
    /\ call = [p \in {1, 2} |-> NoCall]
    /\ last = LastNone
    /\ prev = NoPrev
    /\ edit = Off
    /\ tree = Off

ReadAll ==
    /\ rd.st = "init"
    /\ rd' = [rd EXCEPT !.st = "done",
                        !.out = ReadLoop(rd.files, rd.paths, 1, EmptyDict)]
    /\ UNCHANGED <<fs, call, last, prev, edit, tree>>

NextRead == ReadAll

SpecRead == InitRead /\ [][NextRead]_vars

\* what a path's entry is to be, decided from that path alone
EntryFor(file) ==
    CASE file.kind = "file"       -> ReadText(file.data)
      [] file.kind = "unreadable" -> ReadError("cannot read")
      [] OTHER                    -> FileNotFound

\* C4: the mapping has exactly one entry per requested path, each decided
\* from that path alone: the text of an existing readable regular file, the
\* "Error: File not found" marker for what is no regular file, a read-error
\* marker when reading fails.
C4_OneEntryPerPath ==
    (rd.st = "done")
        => /\ DOMAIN rd.out = {rd.paths[i] : i \in 1..Len(rd.paths)}
           /\ \A p \in DOMAIN rd.out : rd.out[p] = EntryFor(FileAt(rd.files, p))

\* a missing path and an unreadable one ahead of a readable file
C4_Witness ==
    /\ rd.st = "done" /\ Len(rd.paths) = 2
    /\ FileAt(rd.files, rd.paths[1]).kind \in {"none", "unreadable"}
    /\ FileAt(rd.files, rd.paths[2]).kind = "file"
    /\ rd.out[rd.paths[2]] = ReadText(rd.files[rd.paths[2]].data)
    /\ rd.out[rd.paths[1]] \in {FileNotFound, ReadError("cannot read")}

-----------------------------------------------------------------------------
(* SpecTree: get_directory_tree over one directory.                        *)

MaxDepth == 2

\* ".git" is a directory, but it is skipped before line 67 looks at it
TreeDirNames  == {".circleci", "src"}
TreeFileNames == {".git", ".gitignore", "README"}

\* the listings of directories nested at most `depth` deep
RECURSIVE Listings(_)
Listings(depth) ==
    IF depth = 0 THEN {{}}
    ELSE LET below == Listings(depth - 1) IN
         UNION {
           {  {Entry(n, FALSE, {}) : n \in names \cap TreeFileNames}
                 \cup {Entry(n, TRUE, sub[n]) : n \in names \cap TreeDirNames}
              : sub \in [names \cap TreeDirNames -> below] }
           : names \in SUBSET (TreeDirNames \cup TreeFileNames) }

InitTree ==
    /\ tree \in [st : {"init"}, dir : Listings(MaxDepth), out : {<<>>}]
    /\ fs = [path \in DirPaths |-> Absent]
    /\ call = [p \in {1, 2} |-> NoCall]
    /\ last = LastNone
    /\ prev = NoPrev
    /\ edit = Off
    /\ rd = Off

Render ==
    /\ tree.st = "init"
    /\ tree' = [tree EXCEPT !.st = "done",
                            !.out = get_directory_tree(tree.dir, <<>>)]
    /\ UNCHANGED <<fs, call, last, prev, edit, rd>>

NextTree == Render

SpecTree == InitTree /\ [][NextTree]_vars

\* the tree as the claim draws it: of the entries shown, the last has the
\* terminal glyph and blank indentation below it
RECURSIVE ShownTree(_, _)
RECURSIVE ShownLoop(_, _, _)
ShownLoop(shown, prefix, i) ==
    IF i > Len(shown) THEN <<>>
    ELSE LET is_last == (i = Len(shown)) IN
         <<prefix \o <<IF is_last THEN LastBranch ELSE MidBranch, shown[i].name>>>>
         \o (IF shown[i].isdir
             THEN ShownTree(shown[i].sub,
                            prefix \o <<IF is_last THEN BlankIndent ELSE BarIndent>>)
             ELSE <<>>)
         \o ShownLoop(shown, prefix, i + 1)
IsShown(e) == ~StartsWithDotGit(e.name)
ShownTree(listing, prefix) ==
    ShownLoop(SelectSeq(SortedEntries(listing), IsShown), prefix, 1)

\* C8: in every directory the last entry shown has the terminal-branch
\* glyph and every other one the mid-branch glyph, and what is below an
\* entry is indented blank under a last entry and with a bar under another,
\* also when entries of the directory are skipped for their ".git" prefix.
C8_LastShownEntryGlyph ==
    (tree.st = "done") => tree.out = ShownTree(tree.dir, <<>>)

-----------------------------------------------------------------------------
(* SpecEdit: modify_file_content over one file.                            *)

MaxLines == 5

LineBodies == <<"l1", "l2", "l3", "l4", "l5", "l6", "l7", "l8">>

\* the files of n lines: line i is its body and a line end, '\n' or '\r\n';
\* the last line may have none
RECURSIVE FilesOf(_, _)
FilesOf(i, n) ==
    IF i > n THEN {<<>>}
    ELSE {<<LineBodies[i]>> \o term \o rest :
              term \in {<<LF>>, <<CR, LF>>} \cup (IF i = n THEN {<<>>} ELSE {}),
              rest \in FilesOf(i + 1, n)}

EditFiles    == UNION {FilesOf(1, n) : n \in 0..MaxLines}
EditContents == {<<>>, <<"x">>, <<"x", LF, "y", LF>>, <<"x", CR, LF, "y">>}
StartLines   == {None} \cup {Some(n) : n \in (0 - 1)..(MaxLines + 2)}
EndLines     == {None} \cup {Some(n) : n \in (0 - MaxLines)..(MaxLines + 2)}

InitEdit ==
    /\ edit \in [st : {"init"}, file : EditFiles, content : EditContents,
                 start_line : StartLines, end_line : EndLines, out : {<<>>}]
    /\ fs = [path \in DirPaths |-> Absent]
    /\ call = [p \in {1, 2} |-> NoCall]
    /\ last = LastNone
    /\ prev = NoPrev
    /\ tree = Off
    /\ rd = Off

Modify ==
    /\ edit.st = "init"
    /\ edit' = [edit EXCEPT !.st = "done",
                            !.out = modify_file_content(edit.file, edit.content,
                                                        edit.start_line, edit.end_line)]
    /\ UNCHANGED <<fs, call, last, prev, tree, rd>>

NextEdit == Modify

SpecEdit == InitEdit /\ [][NextEdit]_vars

\* the lines of a file as they are on disk, each with its own line end
RECURSIVE DiskLines(_, _)
DiskLines(bytes, line) ==
    IF bytes = <<>> THEN (IF line = <<>> THEN <<>> ELSE <<line>>)
    ELSE IF Head(bytes) = LF
         THEN <<line \o <<LF>>>> \o DiskLines(Tail(bytes), <<>>)
         ELSE DiskLines(Tail(bytes), line \o <<Head(bytes)>>)

RangeGiven == edit.start_line # None /\ edit.end_line # None

\* C6: on a file of n lines, with start clamped to at least 1 and end to at
\* most n, the lines of the new content stand in place of lines start..end
\* and every line outside [start, end] is there byte for byte, in order.
C6_LinesOutsideRangeKept ==
    (edit.st = "done" /\ RangeGiven)
        => LET orig  == DiskLines(edit.file, <<>>)
               n     == Len(orig)
               start == Max(edit.start_line[1], 1)
               end   == Min(edit.end_line[1], n)
               new   == splitlines(edit.content)
               before == SubSeq(orig, 1, Min(start - 1, n))
               after  == SubSeq(orig, Max(end, Min(start - 1, n)) + 1, n)
           IN  DiskLines(edit.out, <<>>)
                   = before \o [i \in 1..Len(new) |-> new[i] \o <<LF>>] \o after

\* C7: after a line-range write every line of the file, kept or new, ends
\* with exactly one line-feed, also when the last line of the file had none.
C7_EveryLineTerminated ==
    (edit.st = "done" /\ RangeGiven)
        => \A i \in 1..Len(DiskLines(edit.out, <<>>)) :
              LET line == DiskLines(edit.out, <<>>)[i] IN
              /\ line[Len(line)] = LF
              /\ \A k \in 1..(Len(line) - 1) : line[k] \notin {LF, CR}

====
